---- MODULE Spec2Model ----
(***************************************************************************)
(* Model of the ink! payment channel contract of src/lib.rs: the storage   *)
(* of PaymentChannel, the host ledger and clock it runs against, and one   *)
(* action per message (close, start_sender_close, clain_timeout,           *)
(* withdrawn).  A message that returns Err or traps is reverted by the     *)
(* host, so it leaves storage, ledger and events as they were.             *)
(***************************************************************************)
EXTENDS Integers, Sequences, FiniteSets, TLC

\* ---------------------------------------------------------------- bounds
MaxFunding == 2      \* the channel is funded with 1..MaxFunding units
MaxAmount == 2       \* amounts presented to close / withdrawn: 0..MaxAmount
MaxDuration == 1     \* close_duration given to the constructor: 0..MaxDuration
MaxTime == 1         \* the block timestamp advances from 0 up to MaxTime
TimestampMax == 1    \* largest value of the (scaled-down) u64 Timestamp
MaxEvents == 2       \* events recorded per instance before the log is full

\* ------------------------------------------------------------ identities
Alice == "alice"     \* the constructor's caller
Bob == "bob"         \* the recipient handed to the constructor
Carol == "carol"     \* a third party
Accounts == {Alice, Bob, Carol}

ThisChannel == "chanA"    \* self.env().account_id() of this instance
OtherChannel == "chanB"   \* the account id of another instance
Channels == {ThisChannel, OtherChannel}

Amounts == 0 .. MaxAmount

\* Option<Timestamp>: None is the empty sequence, Some(t) is <<t>>.
None == <<>>
Some(t) == <<t>>

\* ------------------------------------------------------------ signatures
\* A well-formed signature is determined by the key that made it and the
\* (channel, amount) pair whose hash it signs.  Malformed stands for the
\* 65-byte arrays from which no public key can be recovered.
Malformed == [signer |-> "none", chan |-> "none", amount |-> 0]
NoSignature == [signer |-> "-", chan |-> "-", amount |-> 0]
WellFormed == [signer : Accounts, chan : Channels, amount : Amounts]
Signatures == WellFormed \cup {Malformed}

\* Compressed public key of an account, and the Blake2x256 account id
\* derived from a public key.  A key that belongs to no account of the
\* model derives an id that is no account of the model.
PubKeyOf(account) == <<"pk", account>>
ForeignKey == <<"pk", "foreign">>
AccountIdOf(pub_key) ==
    IF pub_key[2] \in Accounts THEN pub_key[2] ELSE "unknown"

\* A message hash that leaves the instance's account id out.
hash_encoded_amount_only(account_id, amount) == <<"sha2", amount>>

\* Sha2x256 of the SCALE encoding of (account_id, amount): injective.
hash_encoded(account_id, amount) == <<"sha2", account_id, amount>>

\* ink::env::ecdsa_recover: Err on a malformed signature; the signer's key
\* when the signature was made over this message; some unrelated key when
\* it was made over another message.
RecoverFails(signature) == signature = Malformed
ecdsa_recover(signature, message) ==
    IF hash_encoded(signature.chan, signature.amount) = message
    THEN PubKeyOf(signature.signer)
    ELSE ForeignKey

VARIABLES
    sender,          \* storage: AccountId
    recipient,       \* storage: AccountId
    expiration,      \* storage: Option<Timestamp>
    withdrawn,       \* storage: Balance
    close_duration,  \* storage: Timestamp
    alive,           \* the instance exists (not yet terminated)
    balance,         \* ledger: funds of the channel and of each account
    funding,         \* funds the ledger gave the channel at construction
    now,             \* block_timestamp()
    events,          \* SenderCloseStarted events emitted so far
    maxClaim,        \* largest amount presented with an accepted signature
    last             \* the message handled by the latest step, if any

vars == <<sender, recipient, expiration, withdrawn, close_duration, alive,
          balance, funding, now, events, maxClaim, last>>

storage == <<sender, recipient, expiration, withdrawn, close_duration>>

NoCall == [op |-> "none", caller |-> "-", amount |-> 0,
           signature |-> NoSignature, result |-> "-"]

Max(a, b) == IF a >= b THEN a ELSE b

\* ----------------------------------------------------------- constructor
Init ==
    /\ sender = Alice
    /\ recipient = Bob
    /\ expiration = None
    /\ withdrawn = 0
    /\ close_duration \in 0 .. MaxDuration
    /\ alive = TRUE
    /\ funding \in 1 .. MaxFunding
    /\ balance = [a \in Accounts \cup {ThisChannel} |->
                     IF a = ThisChannel THEN funding ELSE 0]
    /\ now = 0
    /\ events = <<>>
    /\ maxClaim = 0
    /\ last = NoCall

\* --------------------------------------------------------------- helpers
\* self.env().transfer(to, value) and terminate_contract(beneficiary) on the
\* ledger; the transfer is rejected when the channel holds less than value.
TransferFails(value) == value > balance[ThisChannel]
transfer(bal, to, value) ==
    [bal EXCEPT ![ThisChannel] = @ - value, ![to] = @ + value]
terminate_contract(bal, beneficiary) ==
    [bal EXCEPT ![ThisChannel] = 0, ![beneficiary] = @ + bal[ThisChannel]]

\* is_signature_valid, for a signature from which a key can be recovered.
is_signature_valid(amount, signature) ==
    recipient =
        AccountIdOf(ecdsa_recover(signature, hash_encoded(ThisChannel, amount)))

\* close_inner without its caller check.
close_inner_any_caller(caller, amount, signature) ==
    IF amount < withdrawn THEN "AmmountIsLessThanWithdrawn"
    ELSE IF RecoverFails(signature) THEN "Panic"
    ELSE IF ~is_signature_valid(amount, signature) THEN "InvalidSignature"
    ELSE IF TransferFails(amount - withdrawn) THEN "TransferFailed"
    ELSE "Ok"

\* The outcome of close_inner: the error it returns, "Panic" when the
\* signature recovery aborts the call, "Ok" when the transfer is made.
close_inner(caller, amount, signature) ==
    IF caller # recipient THEN "CallerIsNotRecipient"
    ELSE IF amount < withdrawn THEN "AmmountIsLessThanWithdrawn"
    ELSE IF RecoverFails(signature) THEN "Panic"
    ELSE IF ~is_signature_valid(amount, signature) THEN "InvalidSignature"
    ELSE IF TransferFails(amount - withdrawn) THEN "TransferFailed"
    ELSE "Ok"

\* withdrawn that turns the recipient away once the deadline has passed.
withdrawn_outcome_deadline_checked(caller, amount, signature) ==
    IF caller # recipient THEN "CallerIsNotRecipient"
    ELSE IF expiration # None /\ now >= expiration[1] THEN "NotYetExpired"
    ELSE IF RecoverFails(signature) THEN "Panic"
    ELSE IF ~is_signature_valid(amount, signature) THEN "InvalidSignature"
    ELSE IF amount < withdrawn THEN "AmmountIsLessThanWithdrawn"
    ELSE IF TransferFails(amount - withdrawn) THEN "TransferFailed"
    ELSE "Ok"

\* The outcome of the message withdrawn(amount, signature).
withdrawn_outcome(caller, amount, signature) ==
    IF caller # recipient THEN "CallerIsNotRecipient"
    ELSE IF RecoverFails(signature) THEN "Panic"
    ELSE IF ~is_signature_valid(amount, signature) THEN "InvalidSignature"
    ELSE IF amount < withdrawn THEN "AmmountIsLessThanWithdrawn"
    ELSE IF TransferFails(amount - withdrawn) THEN "TransferFailed"
    ELSE "Ok"

\* withdrawn += amount, where the delta was meant.
withdrawn_plus_amount(amount) == withdrawn + amount

\* The value of self.withdrawn after a successful withdrawn(amount, ..):
\* the sum computed by checked_add is dropped, the field is not assigned.
withdrawn_stored(amount) == withdrawn

\* start_sender_close without its caller check.
start_sender_close_any_caller(caller) ==
    IF now + close_duration > TimestampMax THEN "Panic"
    ELSE "Ok"

\* The outcome of start_sender_close; checked_add(..).unwrap() aborts the
\* call when now + close_duration does not fit a Timestamp.
start_sender_close(caller) ==
    IF caller # sender THEN "CallerIsNotSender"
    ELSE IF now + close_duration > TimestampMax THEN "Panic"
    ELSE "Ok"

\* clain_timeout with the deadline itself still counted as not expired.
clain_timeout_strict(caller) ==
    IF expiration = None THEN "NotYetExpired"
    ELSE IF now <= expiration[1] THEN "NotYetExpired"
    ELSE "Ok"

\* clain_timeout with the comparison turned around.
clain_timeout_inverted(caller) ==
    IF expiration = None THEN "NotYetExpired"
    ELSE IF now >= expiration[1] THEN "NotYetExpired"
    ELSE "Ok"

\* clain_timeout reserved to the sender.
clain_timeout_sender_only(caller) ==
    IF caller # sender THEN "CallerIsNotSender"
    ELSE IF expiration = None THEN "NotYetExpired"
    ELSE IF now < expiration[1] THEN "NotYetExpired"
    ELSE "Ok"

\* The outcome of clain_timeout.
clain_timeout(caller) ==
    IF expiration = None THEN "NotYetExpired"
    ELSE IF now < expiration[1] THEN "NotYetExpired"
    ELSE "Ok"

\* enum Error: the errors a message can return.
ErrorKinds ==
    {"CallerIsNotSender", "CallerIsNotRecipient", "AmmountIsLessThanWithdrawn",
     "TransferFailed", "NotYetExpired", "InvalidSignature"}

\* The calls that got past the signature check.
SignatureAccepted(result) == result \in {"Ok", "TransferFailed"}

\* A signature that differs from one this instance accepts for amount only
\* in the instance it was signed for.
SignedForOtherInstance(amount, signature) ==
    /\ signature.chan # ThisChannel
    /\ is_signature_valid(amount, [signature EXCEPT !.chan = ThisChannel])

\* What is observed of a handled message: the message, its caller and its
\* result; the claim it was given is kept for a call that succeeded, and of
\* a rejected claim that was signed for another instance the instance it
\* was signed for.
Replayed(amount, signature, result) ==
    result = "InvalidSignature" /\ SignedForOtherInstance(amount, signature)
Call(op, caller, amount, signature, result) ==
    [op |-> op, caller |-> caller,
     amount |-> IF result = "Ok" THEN amount ELSE 0,
     signature |-> IF result = "Ok" THEN signature
                   ELSE IF Replayed(amount, signature, result)
                   THEN [NoSignature EXCEPT !.chan = signature.chan]
                   ELSE NoSignature,
     result |-> result]

\* --------------------------------------------------------------- actions
\* close that drops the result of the transfer and terminates anyway.
Close_ignoring_error(caller, amount, signature) ==
    /\ alive
    /\ LET result == close_inner(caller, amount, signature) IN
       /\ last' = Call("close", caller, amount, signature, result)
       /\ maxClaim' = IF SignatureAccepted(result)
                      THEN Max(maxClaim, amount) ELSE maxClaim
       /\ IF SignatureAccepted(result)
          THEN /\ balance' = terminate_contract(
                     IF result = "Ok"
                     THEN transfer(balance, recipient, amount - withdrawn)
                     ELSE balance, sender)
               /\ alive' = FALSE
          ELSE UNCHANGED <<balance, alive>>
    /\ UNCHANGED <<storage, funding, now, events>>

Close(caller, amount, signature) ==
    /\ alive
    /\ LET result == close_inner(caller, amount, signature) IN
       /\ last' = Call("close", caller, amount, signature, result)
       /\ maxClaim' = IF SignatureAccepted(result)
                      THEN Max(maxClaim, amount) ELSE maxClaim
       /\ IF result = "Ok"
          THEN /\ balance' = terminate_contract(
                     transfer(balance, recipient, amount - withdrawn), sender)
               /\ alive' = FALSE
          ELSE UNCHANGED <<balance, alive>>
    /\ UNCHANGED <<storage, funding, now, events>>

Withdraw(caller, amount, signature) ==
    /\ alive
    /\ LET result == withdrawn_outcome(caller, amount, signature) IN
       /\ last' = Call("withdrawn", caller, amount, signature, result)
       /\ maxClaim' = IF SignatureAccepted(result)
                      THEN Max(maxClaim, amount) ELSE maxClaim
       /\ IF result = "Ok"
          THEN /\ balance' = transfer(balance, recipient, amount - withdrawn)
               /\ withdrawn' = withdrawn_stored(amount)
          ELSE UNCHANGED <<balance, withdrawn>>
    /\ UNCHANGED <<sender, recipient, expiration, close_duration, alive,
                   funding, now, events>>

StartSenderClose(caller) ==
    /\ alive
    /\ LET result == start_sender_close(caller) IN
       /\ result = "Ok" => Len(events) < MaxEvents
       /\ last' = Call("start_sender_close", caller, 0, NoSignature, result)
       /\ IF result = "Ok"
          THEN /\ events' = Append(events,
                     [expiration |-> now + close_duration,
                      close_duration |-> close_duration])
               /\ expiration' = Some(now + close_duration)
          ELSE UNCHANGED <<events, expiration>>
    /\ UNCHANGED <<sender, recipient, withdrawn, close_duration, alive,
                   balance, funding, now, maxClaim>>

\* clain_timeout that pays the sender by a plain transfer and leaves the
\* instance in place.
ClaimTimeout_keeps_instance(caller) ==
    /\ alive
    /\ LET result == clain_timeout(caller) IN
       /\ last' = Call("clain_timeout", caller, 0, NoSignature, result)
       /\ IF result = "Ok"
          THEN balance' = terminate_contract(balance, sender)
          ELSE UNCHANGED balance
    /\ UNCHANGED <<storage, alive, funding, now, events, maxClaim>>

ClaimTimeout(caller) ==
    /\ alive
    /\ LET result == clain_timeout(caller) IN
       /\ last' = Call("clain_timeout", caller, 0, NoSignature, result)
       /\ IF result = "Ok"
          THEN /\ balance' = terminate_contract(balance, sender)
               /\ alive' = FALSE
          ELSE UNCHANGED <<balance, alive>>
    /\ UNCHANGED <<storage, funding, now, events, maxClaim>>

\* A message sent to the address of a terminated instance runs no code.
Messages == {"close", "withdrawn", "start_sender_close", "clain_timeout"}
CallTerminated(op, caller) ==
    /\ ~alive
    /\ last' = Call(op, caller, 0, NoSignature, "ContractNotFound")
    /\ UNCHANGED <<storage, alive, balance, funding, now, events, maxClaim>>

\* The next block: the clock advances, no message is handled.
Tick ==
    /\ now < MaxTime
    /\ now' = now + 1
    /\ last' = NoCall
    /\ UNCHANGED <<storage, alive, balance, funding, events, maxClaim>>

Next ==
    \/ \E c \in Accounts, a \in Amounts, s \in Signatures : Close(c, a, s)
    \/ \E c \in Accounts, a \in Amounts, s \in Signatures : Withdraw(c, a, s)
    \/ \E c \in Accounts : StartSenderClose(c)
    \/ \E c \in Accounts : ClaimTimeout(c)
    \/ \E op \in Messages, c \in Accounts : CallTerminated(op, c)
    \/ Tick

Spec == Init /\ [][Next]_vars

\* The channel with a recipient that stops responding once the sender has
\* started to close: from then on the recipient sends no message.  The clock
\* keeps advancing and the sender keeps asking for its funds.
RecipientSilent(caller) == caller = recipient => expiration = None

NextUnresponsive ==
    \/ \E c \in Accounts, a \in Amounts, s \in Signatures :
          RecipientSilent(c) /\ Close(c, a, s)
    \/ \E c \in Accounts, a \in Amounts, s \in Signatures :
          RecipientSilent(c) /\ Withdraw(c, a, s)
    \/ \E c \in Accounts : RecipientSilent(c) /\ StartSenderClose(c)
    \/ \E c \in Accounts : RecipientSilent(c) /\ ClaimTimeout(c)
    \/ \E op \in Messages, c \in Accounts : CallTerminated(op, c)
    \/ Tick

Fairness == WF_vars(Tick) /\ WF_vars(ClaimTimeout(sender))

LiveSpec == Init /\ [][NextUnresponsive]_vars /\ Fairness

\* ================================================================ claims
IsClaimCall(call) == call.op \in {"close", "withdrawn"}
Succeeded(call) == call.result = "Ok"
Notification(t, d) == [expiration |-> t + d, close_duration |-> d]

\* C1: after every successful withdraw(amount, signature) made with
\* withdrawn = w, exactly amount - w goes from the channel to the recipient
\* and the stored withdrawn becomes amount.
C1_WithdrawRaisesWithdrawn ==
    [][(last'.op = "withdrawn" /\ Succeeded(last')) =>
          /\ balance' = transfer(balance, recipient, last'.amount - withdrawn)
          /\ withdrawn' = last'.amount]_vars

\* C2: in every reachable state the total the channel has transferred to
\* the recipient equals the stored withdrawn (while the instance and its
\* storage exist) and does not exceed the largest amount presented with a
\* valid signature.
C2_CumulativeTotals ==
    /\ alive => balance[recipient] = withdrawn
    /\ balance[recipient] <= maxClaim

\* C3: withdraw and close accept an (amount, signature) pair only if the
\* signature was made by the channel's sender over (this channel, amount).
C3_SenderAuthorizes ==
    (IsClaimCall(last) /\ Succeeded(last)) =>
        last.signature =
            [signer |-> sender, chan |-> ThisChannel, amount |-> last.amount]

\* C4: over every sequence of successful withdraw and close calls, withdrawn
\* is non-decreasing and never exceeds the channel's initial funding.
C4_Monotonicity ==
    [][withdrawn' >= withdrawn /\ withdrawn' <= funding]_vars

\* C4 witness: a withdraw that moved funds has succeeded.
C4_Witness ==
    /\ last.op = "withdrawn" /\ Succeeded(last) /\ last.amount > 0
    /\ balance[recipient] > 0

\* C6: while the instance exists, close and withdraw by anyone but the
\* recipient fail with CallerIsNotRecipient and start_sender_close by
\* anyone but the sender fails with CallerIsNotSender; nothing is
\* transferred, expiration is not set and no notification is emitted.
C6_RoleEnforcement ==
    [][/\ (alive /\ IsClaimCall(last') /\ last'.caller # recipient) =>
            /\ last'.result = "CallerIsNotRecipient"
            /\ UNCHANGED <<storage, alive, balance, events>>
       /\ (alive /\ last'.op = "start_sender_close" /\ last'.caller # sender) =>
            /\ last'.result = "CallerIsNotSender"
            /\ UNCHANGED <<storage, alive, balance, events>>]_vars

\* C6 witness: the sender called close on a funded, live channel and was
\* turned away.
C6_Witness ==
    /\ alive /\ last.op = "close" /\ last.caller = sender
    /\ last.result = "CallerIsNotRecipient"
    /\ balance[ThisChannel] > 0

\* C7: clain_timeout fails with NotYetExpired, changing nothing, when
\* expiration is unset or now < expiration; when now >= expiration it
\* succeeds, pays the whole remaining balance to sender and terminates.
C7_TimeoutGating ==
    [][(alive /\ last'.op = "clain_timeout") =>
          IF expiration = None
          THEN /\ last'.result = "NotYetExpired"
               /\ UNCHANGED <<storage, alive, balance, events>>
          ELSE IF now < expiration[1]
          THEN /\ last'.result = "NotYetExpired"
               /\ UNCHANGED <<storage, alive, balance, events>>
          ELSE /\ Succeeded(last')
               /\ balance' = [balance EXCEPT
                     ![ThisChannel] = 0,
                     ![sender] = @ + balance[ThisChannel]]
               /\ ~alive']_vars

\* C7 witness: a timeout claimed exactly at the deadline returned funds to
\* the sender and ended the instance.
C7_Witness ==
    /\ ~alive /\ last.op = "clain_timeout" /\ Succeeded(last)
    /\ expiration # None /\ now = expiration[1]
    /\ balance[sender] > 0

\* C8: once a start_sender_close has succeeded and set expiration, no later
\* start_sender_close succeeds or changes the stored expiration.
C8_DeadlineFixed ==
    [][(alive /\ expiration # None /\ last'.op = "start_sender_close") =>
          /\ ~Succeeded(last')
          /\ expiration' = expiration]_vars

\* C9: SenderCloseStarted is emitted exactly when start_sender_close
\* succeeds, carries now + close_duration and close_duration, and is
\* observed at most once in the life of an instance.
C9_NotifiedOnce ==
    [][/\ (events' # events) <=>
            (alive /\ last'.op = "start_sender_close" /\ Succeeded(last'))
       /\ (events' # events) =>
            events' = Append(events, Notification(now, close_duration))
       /\ Len(events') <= 1]_vars

\* C10: a successful close(amount, signature) made with withdrawn = w pays
\* amount - w to the recipient, the rest of the channel's balance to the
\* sender, and terminates; afterwards the recipient has received amount
\* in total, and recipient's total plus sender's refund is the funding.
C10_CloseSettles ==
    [][(alive /\ last'.op = "close" /\ Succeeded(last')) =>
          LET delta == last'.amount - withdrawn IN
          /\ balance'[recipient] = balance[recipient] + delta
          /\ balance'[sender] = balance[sender] + balance[ThisChannel] - delta
          /\ balance'[ThisChannel] = 0
          /\ ~alive'
          /\ balance'[recipient] = last'.amount
          /\ balance'[recipient] + balance'[sender] = funding]_vars

\* C11: once close or clain_timeout has succeeded the instance is gone, and
\* every later withdraw, close, start_sender_close or clain_timeout is
\* rejected: no funds move and no channel field or notification changes.
C11_Terminality ==
    [][/\ (alive /\ last'.op \in {"close", "clain_timeout"} /\ Succeeded(last'))
            => ~alive'
       /\ ~alive =>
            /\ UNCHANGED <<storage, alive, balance, events>>
            /\ last'.op \in Messages => last'.result = "ContractNotFound"]_vars

\* C11 witness: a withdraw was sent to an instance that close had ended.
C11_Witness ==
    /\ ~alive /\ last.op = "withdrawn" /\ last.caller = recipient
    /\ last.result = "ContractNotFound"
    /\ balance[ThisChannel] = 0 /\ balance[recipient] > 0

\* C12: whenever withdraw, close, start_sender_close or clain_timeout
\* returns an error, withdrawn, expiration, the ledger balances and the
\* emitted notifications are as before the call; a close whose transfer
\* fails returns TransferFailed and does not terminate the instance.
C12_Transactional ==
    /\ [](alive =>
            \A a \in Amounts, s \in WellFormed :
                (/\ is_signature_valid(a, s) /\ a >= withdrawn
                 /\ TransferFails(a - withdrawn)) =>
                    close_inner(recipient, a, s) = "TransferFailed")
    /\ [][(alive /\ last'.result \in ErrorKinds) =>
            UNCHANGED <<storage, alive, balance, events>>]_vars

\* C12 witness: a close with an accepted claim larger than the channel's
\* funds came back with TransferFailed, the instance still being there.
C12_Witness ==
    /\ alive /\ last.op = "close" /\ last.result = "TransferFailed"
    /\ balance[ThisChannel] > 0 /\ maxClaim > balance[ThisChannel]

\* C13: in every reachable pre-terminal state, balance - withdrawn >= 0,
\* balance being the funds the ledger holds for the channel and withdrawn
\* the stored cumulative amount.
C13_BalanceCoversWithdrawn ==
    alive => balance[ThisChannel] - withdrawn >= 0

\* C13 witness: a withdraw has emptied the channel, which still exists.
C13_Witness ==
    /\ alive /\ last.op = "withdrawn" /\ Succeeded(last)
    /\ balance[ThisChannel] = 0 /\ balance[recipient] = funding

\* C14: no operation ends in an uncontrolled abort: a withdraw or close
\* whose signature cannot be recovered returns InvalidSignature, and a
\* start_sender_close whose now + close_duration overflows returns a typed
\* error instead of panicking.
C14_NoAbort ==
    last.result # "Panic"

\* C15: a signature made over (another channel instance, amount) fails
\* verification when the recipient presents it to withdraw or close on this
\* instance: the call fails with InvalidSignature and moves no funds,
\* whoever signed it and whatever the amount.
C15_AuthorizationBinding ==
    /\ [](alive =>
            \A a \in Amounts, s \in WellFormed :
                s.chan # ThisChannel =>
                    /\ withdrawn_outcome(recipient, a, s) = "InvalidSignature"
                    /\ close_inner(recipient, a, s) = "InvalidSignature")
    /\ [][(alive /\ last'.result = "InvalidSignature") =>
            UNCHANGED <<storage, alive, balance, events>>]_vars

\* C15 witness: the recipient presented to a funded channel a signature
\* that only its channel id keeps from being accepted, and was refused.
C15_Witness ==
    /\ alive /\ last.op = "withdrawn" /\ last.caller = recipient
    /\ last.result = "InvalidSignature"
    /\ last.signature.chan = OtherChannel
    /\ balance[ThisChannel] = funding

\* C16: expiration is set only by a start_sender_close of the sender that
\* succeeded; once set it is never unset; and withdraw never changes it, so
\* the channel stays in the phase it was in before the withdraw.
C16_ExpirationPhase ==
    [][/\ (expiration = None /\ expiration' # None) =>
            /\ last'.op = "start_sender_close" /\ last'.caller = sender
            /\ Succeeded(last')
            /\ expiration' = Some(now + close_duration)
       /\ expiration # None => expiration' # None
       /\ last'.op = "withdrawn" => expiration' = expiration]_vars

\* C16 witness: a withdraw succeeded while the dispute was pending and the
\* deadline is still the one the sender's start_sender_close had set.
C16_Witness ==
    /\ alive /\ expiration # None
    /\ last.op = "withdrawn" /\ Succeeded(last) /\ last.amount > 0
    /\ Len(events) = 1 /\ events[1].expiration = expiration[1]

C18_SameChecks ==
    alive =>
        \A c \in Accounts, a \in Amounts, s \in Signatures :
            close_inner(c, a, s) = withdrawn_outcome(c, a, s)

\* C18 witness: after a withdraw had paid the recipient, a close of the
\* recipient was refused for its signature.
C18_Witness ==
    /\ alive /\ last.op = "close" /\ last.caller = recipient
    /\ last.result = "InvalidSignature"
    /\ balance[recipient] > 0 /\ balance[ThisChannel] > 0

\* C19 (as stated): while the dispute is pending and the instance exists, a
\* withdraw or close by the recipient with a valid claim of
\* amount >= withdrawn succeeds at any current time, the deadline passed or
\* not.
C19_RedeemAnyTime ==
    (alive /\ expiration # None) =>
        \A a \in Amounts, s \in WellFormed :
            (is_signature_valid(a, s) /\ a >= withdrawn) =>
                /\ withdrawn_outcome(recipient, a, s) = "Ok"
                /\ close_inner(recipient, a, s) = "Ok"

\* C19 (amended): while the dispute is pending and the instance exists, a
\* withdraw or close by the recipient with a valid claim of
\* amount >= withdrawn succeeds at any current time, the deadline passed or
\* not, when the channel holds at least amount - withdrawn, and fails with
\* TransferFailed when it does not; from the deadline on clain_timeout
\* succeeds as well, so the first of the two to run settles the split.
C19_RedeemAnyTimeFunded ==
    (alive /\ expiration # None) =>
        /\ \A a \in Amounts, s \in WellFormed :
              (is_signature_valid(a, s) /\ a >= withdrawn) =>
                  LET expected == IF a - withdrawn <= balance[ThisChannel]
                                  THEN "Ok" ELSE "TransferFailed" IN
                  /\ withdrawn_outcome(recipient, a, s) = expected
                  /\ close_inner(recipient, a, s) = expected
        /\ now >= expiration[1] =>
              \A c \in Accounts : clain_timeout(c) = "Ok"

\* C19 witness: after the deadline had passed the recipient closed the
\* channel with a positive claim, before anyone claimed the timeout.
C19_Witness ==
    /\ ~alive /\ last.op = "close" /\ Succeeded(last) /\ last.amount > 0
    /\ expiration # None /\ now >= expiration[1]
    /\ balance[recipient] > 0

\* C20: clain_timeout gives any two callers the same result in the same
\* state at the same time, and on success the whole remaining balance goes
\* to the sender, nothing to a caller that is not the sender.
C20_CallerIndependent ==
    /\ [](alive =>
            \A c1, c2 \in Accounts : clain_timeout(c1) = clain_timeout(c2))
    /\ [][(alive /\ last'.op = "clain_timeout") =>
            /\ last'.result = clain_timeout(sender)
            /\ Succeeded(last') =>
                  /\ balance'[sender] = balance[sender] + balance[ThisChannel]
                  /\ \A c \in Accounts \ {sender} : balance'[c] = balance[c]]_vars

\* C20 witness: a third party claimed the timeout after the deadline; the
\* funds went to the sender and the caller got nothing.
C20_Witness ==
    /\ ~alive /\ last.op = "clain_timeout" /\ Succeeded(last)
    /\ last.caller = Carol
    /\ balance[sender] > 0 /\ balance[Carol] = 0

====
